---- MODULE Spec2Model ----
(***************************************************************************)
(* A model of rename_sequences.py: the tag reader (get_sequence_name), the *)
(* discovery of a representative file (find_first_dicom) and the renamer   *)
(* (rename_mr_sequence_folders) with the program entry.                    *)
(*                                                                         *)
(* Strings are sequences of one-character strings.  A directory is a set   *)
(* of entries; a run walks the tree one sequence folder per step.          *)
(***************************************************************************)
EXTENDS Integers, Sequences, FiniteSets, TLC

VARIABLES
    root,                 \* the root folder: a set of entries (patient folders, stray files)
    root0,                \* the tree as it was when the current run started
    pc,                   \* position of the program
    run,                  \* number of runs started on the tree
    rename_count,         \* the local counter of rename_mr_sequence_folders
    patient_folders,      \* snapshot list of line 58
    pi,                   \* index of the patient folder being processed
    mr_sequence_folders,  \* snapshot list of lines 70-71
    si,                   \* index of the sequence folder being processed
    snapshotted,          \* sequence folders snapshotted so far in this run
    processed,            \* <<patient, name>> pairs whose loop body has run
    renamed,              \* ids of the folders renamed so far in this run
    renamed_before,       \* ids of the folders renamed in earlier runs
    last,                 \* what the last executed loop body did
    summary,              \* what the run printed at its end
    tag,                  \* input of the tag reader under study
    cleaned,              \* get_sequence_name of tag
    cleaned2,             \* get_sequence_name of the value read back from cleaned
    sanpc                 \* position of the tag-reader study

vars == <<root, root0, pc, run, rename_count, patient_folders, pi,
          mr_sequence_folders, si, snapshotted, processed, renamed,
          renamed_before, last, summary, tag, cleaned, cleaned2, sanpc>>

treeVars == <<root, root0, pc, run, rename_count, patient_folders, pi,
              mr_sequence_folders, si, snapshotted, processed, renamed,
              renamed_before, last, summary>>

sanVars == <<tag, cleaned, cleaned2, sanpc>>

-----------------------------------------------------------------------------
(* Bounds *)

MaxLen == 4          \* longest raw tag value of the tag-reader study
MaxRuns == 2         \* runs of the tool on the same tree
MaxPatients == 2     \* entries of the root folder
MaxSeqFolders == 2   \* entries of a patient folder

-----------------------------------------------------------------------------
(* Characters and strings *)

Letters == {"a", "T", "X", "I", "M", "D", "C", "d", "c", "m", "i",
            "n", "t", "x", "s", "u", "b", "o"}
Digits == {"1", "5"}
Whitespace == {" "}

\* the alphabet of raw tag values: a letter, a digit, '_', '-', space, punctuation
RawAlphabet == {"a", "1", "_", "-", " ", "."}

\* a local variable: body applied to the value of e, computed once
Let(e, body(_)) == CHOOSE r \in {body(x) : x \in {e}} : TRUE

RECURSIVE SeqsUpTo(_, _)
SeqsUpTo(S, n) ==
    IF n = 0 THEN {<<>>}
    ELSE LET shorter == SeqsUpTo(S, n - 1)
         IN shorter \cup {Append(s, c) : s \in {t \in shorter : Len(t) = n - 1}, c \in S}

\* str.isalnum of one character
isalnum(c) == c \in Letters \cup Digits

\* the generator expression of line 22, per character
sanitize_char_keep_dot(c) == IF isalnum(c) \/ c \in {"_", "-", "."} THEN c ELSE "_"
sanitize_char(c) == IF isalnum(c) \/ c \in {"_", "-"} THEN c ELSE "_"

\* "".join(... for c in str(sequence_name)), lines 21-23
RECURSIVE join_chars(_)
join_chars(s) ==
    IF s = <<>> THEN <<>> ELSE <<sanitize_char(Head(s))>> \o join_chars(Tail(s))

\* str.strip(): leading and trailing whitespace removed
RECURSIVE lstrip(_)
lstrip(s) == IF s # <<>> /\ Head(s) \in Whitespace THEN lstrip(Tail(s)) ELSE s
RECURSIVE rstrip(_)
rstrip(s) ==
    IF s # <<>> /\ s[Len(s)] \in Whitespace THEN rstrip(SubSeq(s, 1, Len(s) - 1)) ELSE s
strip(s) == rstrip(lstrip(s))

\* str.replace(' ', '_')
RECURSIVE replace_space(_)
replace_space(s) ==
    IF s = <<>> THEN <<>>
    ELSE <<IF Head(s) = " " THEN "_" ELSE Head(s)>> \o replace_space(Tail(s))

\* str.replace('__', '_'): one left-to-right pass over non-overlapping matches
RECURSIVE replace_dunder(_)
replace_dunder(s) ==
    IF Len(s) < 2 THEN s
    ELSE IF s[1] = "_" /\ s[2] = "_"
         THEN <<"_">> \o replace_dunder(SubSeq(s, 3, Len(s)))
         ELSE <<s[1]>> \o replace_dunder(Tail(s))

\* the whole expression of lines 21-23
cleaned_name(s) ==
    Let(join_chars(s), LAMBDA joined :
    Let(strip(joined), LAMBDA stripped :
    Let(replace_space(stripped), LAMBDA spaced : replace_dunder(spaced))))

\* A tag read: the value of SequenceName, its absence, or a failed read.
TagValue(s) == [kind |-> "value", raw |-> s]
TagAbsent == [kind |-> "absent", raw |-> <<>>]
TagError == [kind |-> "error", raw |-> <<>>]

None == [found |-> FALSE, name |-> <<>>]
Some(s) == [found |-> TRUE, name |-> s]

\* get_sequence_name: None on an exception, an absent or empty tag or an empty
\* cleaned name, else the cleaned name
get_sequence_name(t) ==
    IF t.kind = "error" THEN None
    ELSE IF t.kind = "absent" \/ t.raw = <<>> THEN None
    ELSE Let(cleaned_name(t.raw), LAMBDA name :
             IF name # <<>> THEN Some(name) ELSE None)

-----------------------------------------------------------------------------
(* Files and discovery *)

range(s) == {s[i] : i \in 1..Len(s)}

\* str.lower(), on the characters file names use
lower_char(c) ==
    CASE c = "D" -> "d" [] c = "C" -> "c" [] c = "M" -> "m" [] c = "I" -> "i"
      [] c = "T" -> "t" [] c = "X" -> "x" [] OTHER -> c
RECURSIVE lower(_)
lower(s) == IF s = <<>> THEN <<>> ELSE <<lower_char(Head(s))>> \o lower(Tail(s))

\* str.endswith(suffix)
endswith(s, suffix) ==
    /\ Len(s) >= Len(suffix)
    /\ SubSeq(s, Len(s) - Len(suffix) + 1, Len(s)) = suffix

dot_dcm == <<".", "d", "c", "m">>
dot_dicom == <<".", "d", "i", "c", "o", "m">>

\* the name test of line 44
qualifies(file) ==
    \/ "." \notin range(file)
    \/ endswith(lower(file), dot_dcm)
    \/ endswith(lower(file), dot_dicom)

NoFile == [found |-> FALSE, file |-> [name |-> <<>>, isfile |-> FALSE, tag |-> TagAbsent]]

\* find_first_dicom over os.listdir(folder_path) in its enumeration order
RECURSIVE find_first_dicom(_)
find_first_dicom(files) ==
    IF files = <<>> THEN NoFile
    ELSE IF Head(files).isfile /\ qualifies(Head(files).name)
         THEN [found |-> TRUE, file |-> Head(files)]
         ELSE find_first_dicom(Tail(files))

-----------------------------------------------------------------------------
(* Directories *)

\* os.listdir filtered by os.path.isdir (lines 58 and 70-71): the names, as a set
subdirs(dir) == {e.name : e \in {x \in dir : x.isdir}}

\* os.path.exists(os.path.join(dir, name))
exists_only_dirs(dir, name) == \E e \in dir : e.name = name /\ e.isdir
exists(dir, name) == \E e \in dir : e.name = name

entry(dir, name) == CHOOSE e \in dir : e.name = name

\* os.rename(old, new) inside one directory; an entry at new is replaced
os_rename_copy(dir, old, new) ==
    {e \in dir : e.name # new} \cup {[entry(dir, old) EXCEPT !.name = new]}
os_rename(dir, old, new) ==
    {e \in dir : e.name # old /\ e.name # new}
        \cup {[entry(dir, old) EXCEPT !.name = new]}

\* the enumeration orders os.listdir may produce for a set of names
Orders(S) ==
    {o \in [1..Cardinality(S) -> S] : \A i, j \in 1..Cardinality(S) : o[i] = o[j] => i = j}

\* line 91: f"{seq_folder_name}_{new_name}"
new_folder_name_no_old(seq_folder_name, new_name) == new_name
new_folder_name(seq_folder_name, new_name) == seq_folder_name \o <<"_">> \o new_name

\* the condition of line 95
needs_rename_no_exists_check(dir, seq_folder_name, target) == seq_folder_name # target
needs_rename(dir, seq_folder_name, target) ==
    seq_folder_name # target /\ ~exists(dir, target)

Outcome(dir, inc, kind, old, new) ==
    [dir |-> dir, inc |-> inc, kind |-> kind, old |-> old, new |-> new]

\* lines 96-101: the rename and the counter, or the OSError handler
try_rename_counting_failures(dir, seq_folder_name, target, oserror) ==
    IF oserror
    THEN Outcome(dir, 1, "failed", seq_folder_name, target)
    ELSE Outcome(os_rename(dir, seq_folder_name, target), 1, "renamed",
                 seq_folder_name, target)
try_rename(dir, seq_folder_name, target, oserror) ==
    IF oserror
    THEN Outcome(dir, 0, "failed", seq_folder_name, target)
    ELSE Outcome(os_rename(dir, seq_folder_name, target), 1, "renamed",
                 seq_folder_name, target)

\* lines 86-104, once find_first_dicom has returned a file
rename_with_name_ignoring_missing_name(dir, seq_folder_name, new_name, oserror) ==
    LET target == new_folder_name(seq_folder_name, new_name.name)
    IN IF needs_rename(dir, seq_folder_name, target)
       THEN try_rename(dir, seq_folder_name, target, oserror)
       ELSE Outcome(dir, 0, "exists", seq_folder_name, target)
rename_with_name(dir, seq_folder_name, new_name, oserror) ==
    IF ~new_name.found
    THEN Outcome(dir, 0, "no_name", seq_folder_name, <<>>)
    ELSE LET target == new_folder_name(seq_folder_name, new_name.name)
         IN IF needs_rename(dir, seq_folder_name, target)
            THEN try_rename(dir, seq_folder_name, target, oserror)
            ELSE IF exists(dir, target)
                 THEN Outcome(dir, 0, "exists", seq_folder_name, target)
                 ELSE Outcome(dir, 0, "same", seq_folder_name, target)

\* the body of the loop of line 78 for one snapshot name (lines 79-104);
\* os.listdir of a path that is no directory raises, which nothing catches
loop_body(dir, seq_folder_name, oserror) ==
    IF ~(exists(dir, seq_folder_name) /\ entry(dir, seq_folder_name).isdir)
    THEN Outcome(dir, 0, "crash", seq_folder_name, <<>>)
    ELSE Let(find_first_dicom(entry(dir, seq_folder_name).files), LAMBDA dicom_file :
             IF ~dicom_file.found
             THEN Outcome(dir, 0, "no_file", seq_folder_name, <<>>)
             ELSE Let(get_sequence_name(dicom_file.file.tag), LAMBDA new_name :
                      rename_with_name(dir, seq_folder_name, new_name, oserror)))

\* the loop of line 78 over a whole snapshot, os.rename raising OSError for
\* the snapshot names in failing
RECURSIVE run_patient(_, _, _)
run_patient(dir, order, failing) ==
    IF order = <<>> THEN [dir |-> dir, count |-> 0]
    ELSE Let(loop_body(dir, Head(order), Head(order) \in failing), LAMBDA out :
         Let(run_patient(out.dir, Tail(order), failing), LAMBDA rest :
             [dir |-> rest.dir, count |-> out.inc + rest.count]))

-----------------------------------------------------------------------------
(* The trees the runs start from *)

File(name, isfile, t) == [name |-> name, isfile |-> isfile, tag |-> t]

IM == <<"I", "M">>
A_DCM == <<"a", ".", "D", "C", "M">>
B_DICOM == <<"b", ".", "d", "i", "c", "o", "m">>
N_TXT == <<"n", ".", "t", "x", "t">>
SUB == <<"s", "u", "b">>

T == TagValue(<<"T">>)
X == TagValue(<<"X">>)
T_X == TagValue(<<"T", " ", "X">>)

\* folder contents in enumeration order, by what the loop body makes of them
NoFileContents ==
    { <<>>,
      <<File(N_TXT, TRUE, T)>>,
      <<File(SUB, FALSE, T)>> }
NoNameContents ==
    { <<File(IM, TRUE, TagError), File(A_DCM, TRUE, T)>>,
      <<File(IM, TRUE, TagAbsent)>>,
      <<File(A_DCM, TRUE, TagValue(<<>>))>> }
NamedContents ==
    { <<File(N_TXT, TRUE, X), File(IM, TRUE, T)>>,
      <<File(A_DCM, TRUE, X), File(IM, TRUE, T)>>,
      <<File(SUB, FALSE, T), File(B_DICOM, TRUE, T_X)>> }
Contents == NoFileContents \cup NoNameContents \cup NamedContents

\* an empty folder and a folder whose file yields "T"
FewContents ==
    { <<>>,
      <<File(N_TXT, TRUE, X), File(IM, TRUE, T)>> }

N5 == <<"5">>
N5_T == <<"5", "_", "T">>
N5_T_X == <<"5", "_", "T", "_", "X">>
SeqNames == {N5, N5_T, N5_T_X}

EntryOptions(contents) ==
    {[isdir |-> TRUE, files |-> c] : c \in contents}
        \cup {[isdir |-> FALSE, files |-> <<>>]}

\* the patient folders with at most max entries
Dirs(names, contents, max) ==
    UNION { { { [name |-> n, isdir |-> f[n].isdir, id |-> n, files |-> f[n].files]
                : n \in NS }
              : f \in [NS -> EntryOptions(contents)] }
            : NS \in {S \in SUBSET names : Cardinality(S) <= max} }

\* the root folders over the given patient folders: each entry is absent,
\* a stray file or a patient folder
Roots(patients, dirs) ==
    UNION { { { [name |-> p, isdir |-> g[p].isdir, entries |-> g[p].entries]
                : p \in PS }
              : g \in [PS -> {[isdir |-> TRUE, entries |-> d] : d \in dirs}
                               \cup {[isdir |-> FALSE, entries |-> {}]}] }
            : PS \in SUBSET patients }

-----------------------------------------------------------------------------
(* The program *)

NoLast == [kind |-> "none", patient |-> 0, old |-> <<>>, new |-> <<>>]
NoSummary == [printed |-> "none", count |-> 0]

patient_dir(r, p) == (CHOOSE e \in r : e.name = p).entries

with_patient_dir(r, p, dir) ==
    {IF e.name = p THEN [e EXCEPT !.entries = dir] ELSE e : e \in r}

TreeInit(roots) ==
    /\ root \in roots
    /\ root0 = root
    /\ pc = "idle"
    /\ run = 0
    /\ rename_count = 0
    /\ patient_folders = <<>>
    /\ pi = 0
    /\ mr_sequence_folders = <<>>
    /\ si = 0
    /\ snapshotted = 0
    /\ processed = {}
    /\ renamed = <<>>
    /\ renamed_before = {}
    /\ last = NoLast
    /\ summary = NoSummary

TreeOff ==
    /\ root = {}
    /\ root0 = {}
    /\ pc = "off"
    /\ run = 0
    /\ rename_count = 0
    /\ patient_folders = <<>>
    /\ pi = 0
    /\ mr_sequence_folders = <<>>
    /\ si = 0
    /\ snapshotted = 0
    /\ processed = {}
    /\ renamed = <<>>
    /\ renamed_before = {}
    /\ last = NoLast
    /\ summary = NoSummary

SanOff ==
    /\ tag = TagAbsent
    /\ cleaned = None
    /\ cleaned2 = None
    /\ sanpc = "off"

\* lines 53-62: the run starts; with no patient folder it prints an error
\* and returns
start_run_without_empty_check ==
    /\ run' = run + 1
    /\ root0' = root
    /\ rename_count' = 0
    /\ snapshotted' = 0
    /\ processed' = {}
    /\ renamed' = <<>>
    /\ renamed_before' = renamed_before \cup range(renamed)
    /\ last' = NoLast
    /\ mr_sequence_folders' = <<>>
    /\ si' = 0
    /\ \E order \in Orders(subdirs(root)) : patient_folders' = order
    /\ pc' = "patient"
    /\ pi' = 1
    /\ summary' = NoSummary
    /\ UNCHANGED <<root, sanVars>>
start_run ==
    /\ run' = run + 1
    /\ root0' = root
    /\ rename_count' = 0
    /\ snapshotted' = 0
    /\ processed' = {}
    /\ renamed' = <<>>
    /\ renamed_before' = renamed_before \cup range(renamed)
    /\ last' = NoLast
    /\ mr_sequence_folders' = <<>>
    /\ si' = 0
    /\ \E order \in Orders(subdirs(root)) :
          /\ patient_folders' = order
          /\ IF order = <<>>
             THEN /\ pc' = "done"
                  /\ pi' = 0
                  /\ summary' = [printed |-> "no_patients", count |-> 0]
             ELSE /\ pc' = "patient"
                  /\ pi' = 1
                  /\ summary' = NoSummary
    /\ UNCHANGED <<root, sanVars>>

\* lines 128-129: a root folder is chosen and the run starts
StartRun ==
    /\ pc = "idle"
    /\ start_run

\* the tool is started again on the same root after a run has ended
Rerun ==
    /\ pc = "done"
    /\ run < MaxRuns
    /\ start_run

\* lines 130-131: the dialog is cancelled
Cancel ==
    /\ pc = "idle"
    /\ pc' = "cancelled"
    /\ summary' = [printed |-> "cancelled", count |-> 0]
    /\ UNCHANGED <<root, root0, run, rename_count, patient_folders, pi,
                   mr_sequence_folders, si, snapshotted, processed, renamed,
                   renamed_before, last, sanVars>>

\* lines 64-75: the next patient folder and the snapshot of its subfolders
EnterPatient ==
    /\ pc = "patient"
    /\ pi <= Len(patient_folders)
    /\ \E order \in Orders(subdirs(patient_dir(root, patient_folders[pi]))) :
          IF order = <<>>
          THEN /\ pi' = pi + 1
               /\ UNCHANGED <<pc, mr_sequence_folders, si, snapshotted>>
          ELSE /\ pc' = "seq"
               /\ mr_sequence_folders' = order
               /\ si' = 1
               /\ snapshotted' = snapshotted + Len(order)
               /\ UNCHANGED pi
    /\ UNCHANGED <<root, root0, run, rename_count, patient_folders, processed,
                   renamed, renamed_before, last, summary, sanVars>>

\* lines 78-111: one iteration of the loop over the snapshot; after the last
\* one the separator is printed and the outer loop moves on
ProcessSeqFolder ==
    /\ pc = "seq"
    /\ \E oserror \in BOOLEAN :
       \E p \in {patient_folders[pi]} :
       \E seq_folder_name \in {mr_sequence_folders[si]} :
       \E dir \in {patient_dir(root, p)} :
       \E out \in {loop_body(dir, seq_folder_name, oserror)} :
          /\ last' = [kind |-> out.kind, patient |-> p, old |-> out.old,
                      new |-> out.new]
          /\ IF out.kind = "crash"
             THEN /\ pc' = "crashed"
                  /\ UNCHANGED <<root, rename_count, processed, renamed, pi,
                                 mr_sequence_folders, si>>
             ELSE /\ root' = with_patient_dir(root, p, out.dir)
                  /\ rename_count' = rename_count + out.inc
                  /\ processed' = processed \cup {<<p, seq_folder_name>>}
                  /\ renamed' = IF out.kind = "renamed"
                                THEN Append(renamed, <<p, entry(dir, seq_folder_name).id>>)
                                ELSE renamed
                  /\ IF si < Len(mr_sequence_folders)
                     THEN /\ si' = si + 1
                          /\ UNCHANGED <<pc, pi, mr_sequence_folders>>
                     ELSE /\ pc' = "patient"
                          /\ pi' = pi + 1
                          /\ si' = 0
                          /\ UNCHANGED mr_sequence_folders
    /\ UNCHANGED <<root0, run, patient_folders, snapshotted, renamed_before,
                   summary, sanVars>>

\* line 113: the summary
Finish ==
    /\ pc = "patient"
    /\ pi > Len(patient_folders)
    /\ pc' = "done"
    /\ summary' = [printed |-> "count", count |-> rename_count]
    /\ UNCHANGED <<root, root0, run, rename_count, patient_folders, pi,
                   mr_sequence_folders, si, snapshotted, processed, renamed,
                   renamed_before, last, sanVars>>

Next == StartRun \/ Cancel \/ EnterPatient \/ ProcessSeqFolder \/ Finish

\* runs over roots of up to MaxPatients entries
Init ==
    /\ TreeInit(Roots(1..MaxPatients, Dirs({N5, N5_T}, FewContents, MaxSeqFolders)))
    /\ SanOff

Spec == Init /\ [][Next]_vars

\* a started run is never abandoned: the program is sequential
FairSpec == Spec /\ WF_vars(EnterPatient \/ ProcessSeqFolder \/ Finish)

\* runs over one patient folder with every kind of content
InitDir ==
    /\ TreeInit(Roots({1}, Dirs(SeqNames, Contents, MaxSeqFolders)))
    /\ SanOff

NextDir == StartRun \/ Rerun \/ Cancel \/ EnterPatient \/ ProcessSeqFolder \/ Finish

SpecDir == InitDir /\ [][NextDir]_vars

-----------------------------------------------------------------------------
(* The tag reader on its own *)

Tags == {TagAbsent, TagError} \cup {TagValue(s) : s \in SeqsUpTo(RawAlphabet, MaxLen)}

InitSan ==
    /\ TreeOff
    /\ tag \in Tags
    /\ cleaned = None
    /\ cleaned2 = None
    /\ sanpc = "start"

\* get_sequence_name on the tag
ReadTag ==
    /\ sanpc = "start"
    /\ cleaned' = get_sequence_name(tag)
    /\ sanpc' = "read"
    /\ UNCHANGED <<tag, cleaned2, treeVars>>

\* get_sequence_name on a tag whose value is the name obtained before
ReadAgain ==
    /\ sanpc = "read"
    /\ cleaned.found
    /\ cleaned2' = get_sequence_name(TagValue(cleaned.name))
    /\ sanpc' = "reread"
    /\ UNCHANGED <<tag, cleaned, treeVars>>

NextSan == ReadTag \/ ReadAgain

SpecSan == InitSan /\ [][NextSan]_vars

-----------------------------------------------------------------------------
(* What the loop body is about to work on, read off the state *)

Present(dir, name) == \E e \in dir : e.name = name

CurPatient == patient_folders[pi]
CurName == mr_sequence_folders[si]
CurDir == patient_dir(root, CurPatient)
CurEntry == CHOOSE e \in CurDir : e.name = CurName
CurFile == find_first_dicom(CurEntry.files)
CurSeqName == IF CurFile.found THEN get_sequence_name(CurFile.file.tag) ELSE None
CurDest == CurName \o <<"_">> \o CurSeqName.name

\* the folders of a patient folder whose name is no longer the one they had
\* when the run started
MovedIn(p) ==
    {e \in patient_dir(root0, p) :
        e.isdir /\ ~\E f \in patient_dir(root, p) : f.id = e.id /\ f.name = e.name}
Moved == UNION {{<<p, e.id>> : e \in MovedIn(p)} : p \in subdirs(root0)}

\* every <<patient, sequence folder>> the run has to visit
AllSnapshot ==
    UNION {{<<p, n>> : n \in subdirs(patient_dir(root0, p))} : p \in subdirs(root0)}

FolderIds(dir) == {e.id : e \in {x \in dir : x.isdir}}

-----------------------------------------------------------------------------
(* C1 *)

\* C1: a folder renamed by an earlier run is not renamed again by a later run
\* on the same tree.
C1_RerunRenamesNothing ==
    \A k \in 1..Len(renamed) : renamed[k] \notin renamed_before

-----------------------------------------------------------------------------
(* C2 *)

\* C2: reading back a cleaned name gives the same cleaned name, that is,
\* the sanitization of get_sequence_name is idempotent.
C2_SanitizeIdempotent == sanpc = "reread" => cleaned2 = cleaned

-----------------------------------------------------------------------------
(* C3 *)

DestExistsNow ==
    /\ pc = "seq"
    /\ CurSeqName.found
    /\ Present(CurDir, CurDest)

\* C3: when an entry already exists at patient/oldName_sanitizedName, the step
\* changes nothing in the tree (source and destination keep name and contents),
\* attempts no rename and leaves the counter alone.
C3_ExistingDestinationUntouched ==
    [][DestExistsNow =>
          /\ root' = root
          /\ rename_count' = rename_count
          /\ last'.kind = "exists"]_vars

C3_Witness ==
    /\ last.kind = "exists"
    /\ \E e \in patient_dir(root, last.patient) : e.name = last.new /\ ~e.isdir
    /\ Present(patient_dir(root, last.patient), last.old)

-----------------------------------------------------------------------------
(* C4 *)

\* C4: the tree or the counter changes in a step only if discovery returned a
\* file, the tag reader returned a name for it, the new name differs from the
\* current one and nothing exists at the new path.
C4_RenameOnlyIf ==
    [][(root' # root \/ rename_count' > rename_count) =>
          /\ pc = "seq"
          /\ CurFile.found
          /\ CurSeqName.found
          /\ CurSeqName.name # <<>>
          /\ CurDest # CurName
          /\ ~Present(CurDir, CurDest)]_vars

C4_Witness ==
    /\ rename_count = 1
    /\ last.kind \in {"no_file", "no_name"}
    /\ root # root0

-----------------------------------------------------------------------------
(* C5 *)

FreshDestNow ==
    /\ pc = "seq"
    /\ run = 1
    /\ CurSeqName.found
    /\ ~Present(CurDir, CurDest)

RenamedExactly ==
    /\ patient_dir(root', CurPatient) =
          (CurDir \ {CurEntry}) \cup {[CurEntry EXCEPT !.name = CurDest]}
    /\ \A e \in root : e.name # CurPatient => e \in root'
    /\ rename_count' = rename_count + 1

\* C5 as claimed: on the first run a folder with a sanitized name s and a free
\* destination is renamed to oldName_s and the counter grows by one.
C5_AlwaysRenamed == [][FreshDestNow => RenamedExactly]_vars

\* C5: on the first run a folder with a sanitized name s and a free
\* destination is renamed to oldName_s and the counter grows by one, unless
\* os.rename raises OSError, and then the tree and the counter are unchanged.
C5_RenamedUnlessOSError ==
    [][FreshDestNow =>
          \/ RenamedExactly
          \/ /\ last'.kind = "failed"
             /\ root' = root
             /\ rename_count' = rename_count]_vars

C5_Witness ==
    /\ run = 1
    /\ last.kind = "renamed"
    /\ rename_count = 1
    /\ last.new = last.old \o <<"_", "T", "_", "X">>
    /\ Present(patient_dir(root, last.patient), last.new)
    /\ ~Present(patient_dir(root, last.patient), last.old)

-----------------------------------------------------------------------------
(* C6 *)

AllowedChars == Letters \cup Digits \cup {"_", "-"}

\* C6: a name returned by get_sequence_name is not empty, has no space and
\* consists of alphanumeric characters, '_' and '-'.
C6_CleanNames ==
    (sanpc \in {"read", "reread"} /\ cleaned.found) =>
        /\ cleaned.name # <<>>
        /\ " " \notin range(cleaned.name)
        /\ range(cleaned.name) \subseteq AllowedChars

C6_Witness ==
    /\ sanpc = "read"
    /\ cleaned.found
    /\ {" ", ".", "a"} \subseteq range(tag.raw)

-----------------------------------------------------------------------------
(* C7 *)

\* C7: a failed os.rename leaves the tree and the counter as they were and
\* the loops go on: the run reaches its summary with every snapshotted
\* sequence folder of every patient folder visited.
C7_FailureIsLocal ==
    /\ [][(pc = "seq" /\ last'.kind = "failed") =>
             /\ root' = root
             /\ rename_count' = rename_count
             /\ pc' \in {"seq", "patient"}
             /\ <<CurPatient, CurName>> \in processed']_vars
    /\ (last.kind = "failed") ~>
          (pc = "done" /\ summary.printed = "count" /\ processed = AllSnapshot)

C7_Witness ==
    /\ last.kind = "failed"
    /\ pc = "seq"
    /\ pi < Len(patient_folders)
    /\ Present(patient_dir(root, last.patient), last.old)

-----------------------------------------------------------------------------
(* C8 *)

\* C8 as claimed: whatever the root holds, the run ends with a summary count
\* equal to the number of successful renames.
C8_AlwaysSummary ==
    pc = "done" =>
        /\ summary.printed = "count"
        /\ summary.count = Cardinality(Moved)

\* C8: every started run ends; with at least one patient folder it ends with a
\* summary count equal to the number of folders renamed, and with none it ends
\* with the error message and no count.
C8_TerminatesWithSummary ==
    /\ [](pc \in {"patient", "seq"} => <>(pc = "done"))
    /\ [](pc = "done" =>
            IF subdirs(root0) = {}
            THEN summary.printed = "no_patients"
            ELSE /\ summary.printed = "count"
                 /\ summary.count = Cardinality(Moved))

C8_Witness ==
    /\ pc = "done"
    /\ summary.printed = "count"
    /\ summary.count = 2
    /\ Cardinality(subdirs(root0)) = 2
    /\ \E p \in subdirs(root0) : subdirs(patient_dir(root0, p)) = {}

-----------------------------------------------------------------------------
(* C9 *)

NoDuplicates(s) == \A i, j \in 1..Len(s) : s[i] = s[j] => i = j

\* C9: a snapshot name always refers to a folder when its turn comes (the run
\* never crashes on a missing one), no folder is renamed twice in a run, every
\* patient folder keeps its sequence folders, and the counter never exceeds the
\* number of snapshotted folders.
C9_SnapshotStaysValid ==
    /\ pc # "crashed"
    /\ pc = "seq" => \E e \in CurDir : e.name = CurName /\ e.isdir
    /\ NoDuplicates(renamed)
    /\ \A p \in subdirs(root0) :
          /\ FolderIds(patient_dir(root, p)) = FolderIds(patient_dir(root0, p))
          /\ Cardinality(subdirs(patient_dir(root, p)))
                = Cardinality(subdirs(patient_dir(root0, p)))
    /\ rename_count <= snapshotted

\* a folder has been renamed to a name that was in the snapshot
C9_Witness ==
    /\ last.kind = "renamed"
    /\ Len(renamed) = 2
    /\ last.new \in subdirs(patient_dir(root0, last.patient))

-----------------------------------------------------------------------------
(* C10 *)

Result(dir, order, failing) ==
    LET r == run_patient(dir, order, failing)
    IN [names |-> {e.name : e \in r.dir}, count |-> r.count]

\* the destination a folder of the directory is renamed to, if it has one
HasDest(e) ==
    /\ e.isdir
    /\ find_first_dicom(e.files).found
    /\ get_sequence_name(find_first_dicom(e.files).file.tag).found
DestOf(e) ==
    e.name \o <<"_">> \o get_sequence_name(find_first_dicom(e.files).file.tag).name

\* the folders os.rename may be asked to rename
Renamable(dir) == {e.name : e \in {x \in dir : HasDest(x)}}

\* any two orders give the same result: the orders give at most one result,
\* whichever of the renames fail
SameUnderAllOrders(dir) ==
    \A failing \in SUBSET Renamable(dir) :
        Cardinality({Result(dir, o, failing) : o \in Orders(subdirs(dir))}) <= 1

\* no destination is the name of an entry or the destination of another folder
NoClash(dir) ==
    \A dests \in {{<<e.name, DestOf(e)>> : e \in {x \in dir : HasDest(x)}}} :
        \A d \in dests :
            /\ ~Present(dir, d[2])
            /\ \A o \in dests : o[2] = d[2] => o = d

\* a patient folder is about to be listed (lines 70-71)
AboutToList == pc = "patient" /\ pi <= Len(patient_folders)

\* C10 as claimed: the names and the count a run leaves in a patient folder
\* do not depend on the order in which its sequence folders are enumerated.
C10_OrderIndependent ==
    AboutToList => SameUnderAllOrders(patient_dir(root, patient_folders[pi]))

\* C10: the names and the count a run leaves in a patient folder do not depend
\* on the enumeration order, provided no folder's destination is the name of an
\* entry of the patient folder or the destination of another of its folders,
\* and os.rename fails for the same folders under both orders.  The outcome of
\* the run taken is the one computed for the order it took.
C10_OrderIndependentWithoutClash ==
    /\ AboutToList =>
          (NoClash(patient_dir(root, patient_folders[pi])) =>
              SameUnderAllOrders(patient_dir(root, patient_folders[pi])))
    /\ (pc = "done" /\ last.kind # "none") =>
          \E failing \in SUBSET Renamable(patient_dir(root0, last.patient)) :
              run_patient(patient_dir(root0, last.patient),
                          mr_sequence_folders, failing).dir
                  = patient_dir(root, last.patient)

C10_Witness ==
    /\ pc = "done"
    /\ rename_count = 2
    /\ \E p \in subdirs(root0) :
          /\ NoClash(patient_dir(root0, p))
          /\ Cardinality(subdirs(patient_dir(root0, p))) = 2

====
